---- MODULE Spec2Model ----
(***************************************************************************)
(* Verification model of the components of agent_core_deep_research:       *)
(*                                                                         *)
(*  - AgentcoreMemoryDR/multi_region_memory_saver.py                       *)
(*      MultiRegionAgentCoreMemorySaver: reads go to the primary saver,    *)
(*      writes go to the primary saver and then to the secondary saver.    *)
(*  - 3lo.test/oauth2_callback_server.py                                   *)
(*      OAuth2CallbackServer: ping, token store and OAuth2 callback.       *)
(*      wait_for_oauth2_server_to_be_ready: the readiness poll.            *)
(*  - langgraph_streaming: the math agent entrypoint and its               *)
(*      worker / tools / evaluator graph.                                  *)
(*  - src/agent_core/scoping_agent_core.py, AgentcoreMemoryDR/             *)
(*      agent_runtime.py: entrypoints with a checkpointer.                 *)
(*  - AgentcoreMemoryDR/enable_memory_replication.py: main.                *)
(*  - MultiServerMCPClient/agentcore_remote_agent.py: agent_node.          *)
(*                                                                         *)
(* The wrapped savers and the identity client are external services: a     *)
(* call to one either takes effect and returns, or raises without effect.  *)
(***************************************************************************)
EXTENDS Integers, Sequences, FiniteSets, TLC

VARIABLES
    primary,       \* events of the primary region's memory, per thread
    secondary,     \* events of the secondary region's memory, per thread
    calls,         \* the calls made on the saver so far, in call order
    delOverlap,    \* threads on which a delete_thread overlapped another write
    user_token_identifier, \* OAuth2CallbackServer.user_token_identifier
    requests,      \* the HTTP requests handled since start, with their responses
    identity_calls, \* the calls made to identity_client.complete_resource_token_auth
    wait_pc,       \* wait_for_oauth2_server_to_be_ready: the statement it is at
    duration,      \* its argument, a timedelta
    elapsed,       \* time.time() - start_time, in seconds
    pings,         \* the answers its GET /ping requests got, with their times
    wait_result,   \* its return value
    math_pc,       \* math agent: the graph node to execute next
    payload,       \* the payload of the invocation
    messages,      \* WorkerEvaluatorState.messages
    worker_output, \* WorkerEvaluatorState.worker_output
    evaluation_result, \* WorkerEvaluatorState.evaluation_result
    executed,      \* the names of the nodes executed so far, in order
    events,        \* the events the stream has carried so far
    invoke_result, \* what invoke returned
    checkpointer,  \* per entrypoint, the checkpoint (messages) kept per config
    invocations,   \* the invocations of the entrypoints so far, in order
    repl_pc,       \* enable_memory_replication.main: the statement it is at
    environmentVariables, \* per region, the runtime's environment variables
    us_primary_memory_id, \* main's local
    eu_primary_memory_id, \* main's local
    node_pc,       \* agent_node: the statement it is at
    loop_i,        \* the passes of its loop completed
    tool_rounds,   \* the rounds of tool execution it started
    llm_calls,     \* the calls of llm_with_tools.ainvoke it made
    new_messages,  \* its local new_messages
    node_result,   \* the messages it returned
    task_pc,       \* per invocation of the MCP agent, the statement it is at
    init_lock,     \* _init_lock: the invocation that holds it, or None
    lock_waiters,  \* the invocations waiting for _init_lock, in arrival order
    cached,        \* _cached
    received,      \* per invocation, what _get_or_init returned to it, if it did
    agents_built,  \* the agents _create_agent has built so far
    initialised    \* the times _get_or_init stored an agent in _cached

saverVars == <<primary, secondary, calls, delOverlap>>
oauthVars == <<user_token_identifier, requests, identity_calls>>
waitVars == <<wait_pc, duration, elapsed, pings, wait_result>>
mathVars == <<math_pc, payload, messages, worker_output, evaluation_result,
              executed, events, invoke_result>>
agentVars == <<checkpointer, invocations>>
replVars == <<repl_pc, environmentVariables, us_primary_memory_id,
              eu_primary_memory_id>>
nodeVars == <<node_pc, loop_i, tool_rounds, llm_calls, new_messages, node_result>>
remoteVars == <<task_pc, init_lock, lock_waiters, cached, received,
                agents_built, initialised>>
vars == <<primary, secondary, calls, delOverlap,
          user_token_identifier, requests, identity_calls,
          wait_pc, duration, elapsed, pings, wait_result,
          math_pc, payload, messages, worker_output, evaluation_result,
          executed, events, invoke_result,
          checkpointer, invocations,
          repl_pc, environmentVariables, us_primary_memory_id,
          eu_primary_memory_id,
          node_pc, loop_i, tool_rounds, llm_calls, new_messages, node_result,
          task_pc, init_lock, lock_waiters, cached, received,
          agents_built, initialised>>

\* What the actions of one component leave alone: the other components.
notSaver == <<oauthVars, waitVars, mathVars, agentVars, replVars, nodeVars, remoteVars>>
notOAuth == <<saverVars, waitVars, mathVars, agentVars, replVars, nodeVars, remoteVars>>
notWait == <<saverVars, oauthVars, mathVars, agentVars, replVars, nodeVars, remoteVars>>
notMath == <<saverVars, oauthVars, waitVars, agentVars, replVars, nodeVars, remoteVars>>
notAgent == <<saverVars, oauthVars, waitVars, mathVars, replVars, nodeVars, remoteVars>>
notRepl == <<saverVars, oauthVars, waitVars, mathVars, agentVars, nodeVars, remoteVars>>
notNode == <<saverVars, oauthVars, waitVars, mathVars, agentVars, replVars, remoteVars>>
notRemote == <<saverVars, oauthVars, waitVars, mathVars, agentVars, replVars,
               nodeVars>>

\* Python's None, as a checkpoint id, a version or a stored value.
None == 0

-----------------------------------------------------------------------------
(* MultiRegionAgentCoreMemorySaver *)

MaxCalls == 3

Threads == {"t1", "t2"}

\* The methods of the saver. The async methods hold the statements of the
\* sync ones, awaited, so each pair is one operation of the model.
WriteMethods == {"put", "aput", "put_writes", "aput_writes",
                 "delete_thread", "adelete_thread"}
ReadMethods == {"get", "aget", "get_tuple", "aget_tuple", "list", "alist"}

Op(method) ==
    CASE method \in {"put", "aput"} -> "put"
      [] method \in {"put_writes", "aput_writes"} -> "put_writes"
      [] method \in {"delete_thread", "adelete_thread"} -> "delete_thread"
      [] method \in {"get", "aget"} -> "get"
      [] method \in {"get_tuple", "aget_tuple"} -> "get_tuple"
      [] method \in {"list", "alist"} -> "list"
      [] OTHER -> method

WriteOps == {Op(m) : m \in WriteMethods}
ReadOps == {Op(m) : m \in ReadMethods} \cup {"get_next_version"}

Outcomes == {"ok", "raise"}

\* The wrapped saver's write, applied to one region's store: put and
\* put_writes add one event to the thread, delete_thread removes the thread's.
Apply(store, op, t, id) ==
    IF op = "put"
    THEN [store EXCEPT ![t] = Append(@, [id |-> id, kind |-> "checkpoint"])]
    ELSE IF op = "put_writes"
    THEN [store EXCEPT ![t] = Append(@, [id |-> id, kind |-> "writes"])]
    ELSE [store EXCEPT ![t] = <<>>]

RECURSIVE LastCheckpoint(_)
LastCheckpoint(evs) ==
    IF evs = <<>> THEN None
    ELSE IF evs[Len(evs)].kind = "checkpoint" THEN evs[Len(evs)].id
    ELSE LastCheckpoint(SubSeq(evs, 1, Len(evs) - 1))

RECURSIVE CheckpointIds(_)
CheckpointIds(evs) ==
    IF evs = <<>> THEN <<>>
    ELSE IF evs[1].kind = "checkpoint"
         THEN <<evs[1].id>> \o CheckpointIds(Tail(evs))
         ELSE CheckpointIds(Tail(evs))

PendingWrites(evs) ==
    {evs[i].id : i \in {j \in 1..Len(evs) :
        /\ evs[j].kind = "writes"
        /\ \A k \in (j + 1)..Len(evs) : evs[k].kind # "checkpoint"}}

NoAnswer == [checkpoint |-> None, pending |-> {}, all |-> <<>>, version |-> None]

\* What the primary saver's write returns: put's config names the checkpoint.
PrimaryResult(op, id) ==
    IF op = "put" THEN [NoAnswer EXCEPT !.checkpoint = id] ELSE NoAnswer

\* What a wrapped saver answers to a read, from its own region's store.
Answer(store, op, t, current) ==
    IF op = "get"
    THEN [NoAnswer EXCEPT !.checkpoint = LastCheckpoint(store[t])]
    ELSE IF op = "get_tuple"
    THEN [NoAnswer EXCEPT !.checkpoint = LastCheckpoint(store[t]),
                          !.pending = IF LastCheckpoint(store[t]) = None
                                      THEN {} ELSE PendingWrites(store[t])]
    ELSE IF op = "list"
    THEN [NoAnswer EXCEPT !.all = CheckpointIds(store[t])]
    ELSE [NoAnswer EXCEPT !.version = current + 1]

\* get .. get_next_version: the read is delegated to the primary saver alone.
ReadFrom_fallback(op, t, current) ==
    IF op # "get_next_version" /\ primary[t] = <<>>
    THEN [savers |-> {"primary", "secondary"},
          value |-> Answer(secondary, op, t, current)]
    ELSE [savers |-> {"primary"}, value |-> Answer(primary, op, t, current)]

ReadFrom(op, t, current) ==
    [savers |-> {"primary"}, value |-> Answer(primary, op, t, current)]

\* put: the statement after primary_saver.put is secondary_saver.put; an
\* exception of the primary write leaves the method at once.
AfterPrimary_swallow(out) == "secondary"

AfterPrimary(out) == IF out = "ok" THEN "secondary" ELSE "raised"

\* put: the statement after secondary_saver.put is the return; an exception
\* of the secondary write leaves the method.
AfterSecondary_bestEffort(out) == "returned"

AfterSecondary(out) == IF out = "ok" THEN "returned" ELSE "raised"

\* The secondary saver gets the arguments the primary saver got.
SecondaryApply_dropWrites(c) ==
    IF calls[c].op = "put_writes" THEN secondary
    ELSE Apply(secondary, calls[c].op, calls[c].thread, c)

SecondaryApply(c) == Apply(secondary, calls[c].op, calls[c].thread, c)

\* The primary store after the secondary write ended with `out`: the method
\* holds no compensation, so the primary store is as the primary write left it.
PrimaryAfterSecondary_rollback(c, out) ==
    IF out = "raise" /\ calls[c].op # "delete_thread"
    THEN [primary EXCEPT ![calls[c].thread] =
            SelectSeq(@, LAMBDA e : e.id # c)]
    ELSE primary

PrimaryAfterSecondary(c, out) == primary

InProgress(c) == calls[c].pc = "secondary"

\* A delete_thread on t is running while another write on t is.
Overlaps(op, t) ==
    \E d \in 1..Len(calls) :
        /\ InProgress(d)
        /\ calls[d].thread = t
        /\ (op = "delete_thread" \/ calls[d].op = "delete_thread")

SaverInit ==
    /\ primary = [t \in Threads |-> <<>>]
    /\ secondary = [t \in Threads |-> <<>>]
    /\ calls = <<>>
    /\ delOverlap = {}

\* A write method is called and issues its first statement, the primary write.
StartWrite(method, t, out) ==
    /\ Len(calls) < MaxCalls
    /\ LET c == Len(calls) + 1
           op == Op(method) IN
        /\ primary' = IF out = "ok" THEN Apply(primary, op, t, c) ELSE primary
        /\ calls' = Append(calls,
              [op |-> op, thread |-> t, current |-> None,
               pc |-> AfterPrimary(out),
               savers |-> {"primary"}, pri |-> out, sec |-> "none",
               value |-> IF out = "ok" THEN PrimaryResult(op, c) ELSE NoAnswer])
        /\ delOverlap' = IF Overlaps(op, t) THEN delOverlap \cup {t}
                         ELSE delOverlap
    /\ UNCHANGED secondary
    /\ UNCHANGED notSaver

\* The write method's second statement, the secondary write, and its return.
SecondaryWrite(c, out) ==
    /\ c \in 1..Len(calls)
    /\ calls[c].pc = "secondary"
    /\ secondary' = IF out = "ok" THEN SecondaryApply(c) ELSE secondary
    /\ primary' = PrimaryAfterSecondary(c, out)
    /\ calls' = [calls EXCEPT ![c].pc = AfterSecondary(out), ![c].sec = out,
                              ![c].savers = @ \cup {"secondary"}]
    /\ UNCHANGED delOverlap
    /\ UNCHANGED notSaver

\* A read method: one delegated call, whose answer or exception is the method's.
ReadCall(op, t, current, out) ==
    /\ Len(calls) < MaxCalls
    /\ calls' = Append(calls,
          [op |-> op, thread |-> t, current |-> current,
           pc |-> IF out = "ok" THEN "returned" ELSE "raised",
           savers |-> ReadFrom(op, t, current).savers,
           pri |-> out, sec |-> "none",
           value |-> IF out = "ok" THEN ReadFrom(op, t, current).value
                     ELSE NoAnswer])
    /\ UNCHANGED <<primary, secondary, delOverlap>>
    /\ UNCHANGED notSaver

Read(method, t, out) == ReadCall(Op(method), t, None, out)

\* get_next_version(current, channel) takes no thread.
GetNextVersion(current, out) == ReadCall("get_next_version", "t1", current, out)

-----------------------------------------------------------------------------
(* OAuth2CallbackServer *)

MaxRequests == 4

\* self.user_token_identifier before any token is stored: Python's None.
NotSet == [none |-> TRUE]

\* The user_token strings a POST body may carry; the empty string is a str.
Tokens == {"", "u1", "u2"}

\* The JSON bodies of POST /userIdentifier/token: a UserTokenIdentifier, or a
\* body without the user_token field.
Bodies == {[user_token |-> tok] : tok \in Tokens} \cup {[user_id |-> "u1"]}

\* The query strings of GET /oauth2/callback: with session_id (possibly
\* empty), or without it.
Queries == {[session_id |-> sid] : sid \in {"", "s1", "s2"}} \cup {[code |-> "c"]}

\* FastAPI's validation of the declared parameters, before the handler runs:
\* user_token_identifier_value: UserTokenIdentifier, and session_id: str.
ValidBody(body) == "user_token" \in DOMAIN body

HasSessionId(query) == "session_id" \in DOMAIN query

ValidationError == [status |-> 422, body |-> "validation error"]

\* Python's truth value of self.user_token_identifier: None is false, a
\* UserTokenIdentifier object is true whatever its user_token.
Truthy_always(tok) == TRUE

Truthy(tok) == tok # NotSet

\* _store_user_token: self.user_token_identifier = user_token_identifier_value
StoredValue_firstWins(current, body) == IF current = NotSet THEN body ELSE current

StoredValue(current, body) == body

\* _handle_ping: return {"status": "success"}
PingResponse_ok == [status |-> 200, body |-> "{\"status\": \"ok\"}"]

PingResponse == [status |-> 200, body |-> "{\"status\": \"success\"}"]

BadRequest == [status |-> 400, body |-> "Missing session_id query parameter"]

InternalServerError == [status |-> 500, body |-> "Internal Server Error"]

SuccessPage == [status |-> 200, body |-> "<h1>Completed OAuth2 3LO flow successfully</h1>"]

\* _handle_oauth2_callback after complete_resource_token_auth: the success
\* page when the call returned; its exception leaves the handler (a 500).
AfterIdentity_swallow(out) == SuccessPage

AfterIdentity(out) == IF out = "ok" THEN SuccessPage ELSE InternalServerError

\* The arguments of identity_client.complete_resource_token_auth.
IdentityArgs(query) ==
    [session_uri |-> query.session_id, user_identifier |-> user_token_identifier]

OAuthInit ==
    /\ user_token_identifier = NotSet
    /\ requests = <<>>
    /\ identity_calls = <<>>

Handled(route, arg, resp) ==
    requests' = Append(requests,
        [route |-> route, arg |-> arg, status |-> resp.status, body |-> resp.body])

\* POST /userIdentifier/token
StoreUserToken(body) ==
    /\ Len(requests) < MaxRequests
    /\ IF ValidBody(body)
       THEN /\ user_token_identifier' = StoredValue(user_token_identifier, body)
            /\ Handled("store", body, [status |-> 200, body |-> "null"])
       ELSE /\ UNCHANGED user_token_identifier
            /\ Handled("store", body, ValidationError)
    /\ UNCHANGED identity_calls
    /\ UNCHANGED notOAuth

\* GET /ping
HandlePing ==
    /\ Len(requests) < MaxRequests
    /\ Handled("ping", NotSet, PingResponse)
    /\ UNCHANGED <<user_token_identifier, identity_calls>>
    /\ UNCHANGED notOAuth

\* GET /oauth2/callback; `out` is how complete_resource_token_auth ends, if
\* the handler gets to call it.
HandleOAuth2Callback(query, out) ==
    /\ Len(requests) < MaxRequests
    /\ IF ~HasSessionId(query)
       THEN /\ Handled("callback", query, ValidationError)
            /\ UNCHANGED identity_calls
       ELSE IF query.session_id = ""
       THEN /\ Handled("callback", query, BadRequest)
            /\ UNCHANGED identity_calls
       ELSE IF ~Truthy(user_token_identifier)
       THEN /\ Handled("callback", query, InternalServerError)
            /\ UNCHANGED identity_calls
       ELSE /\ identity_calls' = Append(identity_calls,
                  [req |-> Len(requests) + 1,
                   session_uri |-> IdentityArgs(query).session_uri,
                   user_identifier |-> IdentityArgs(query).user_identifier,
                   outcome |-> out])
            /\ Handled("callback", query, AfterIdentity(out))
    /\ UNCHANGED user_token_identifier
    /\ UNCHANGED notOAuth

\* The server process is stopped and started again: __init__ runs anew.
Restart ==
    /\ requests # <<>>
    /\ user_token_identifier' = NotSet
    /\ requests' = <<>>
    /\ identity_calls' = <<>>
    /\ UNCHANGED notOAuth

OAuthNext ==
    \/ \E body \in Bodies : StoreUserToken(body)
    \/ HandlePing
    \/ \E query \in Queries, out \in Outcomes : HandleOAuth2Callback(query, out)
    \/ Restart

-----------------------------------------------------------------------------
(* wait_for_oauth2_server_to_be_ready *)

MaxDays == 1
MaxSeconds == 5

SecondsPerDay == 86400

\* requests.get(..., timeout=2) and time.sleep(2)
RequestTimeout == 2
PollInterval == 2

\* A timedelta, normalised as Python keeps it: days, and seconds below a day.
Durations == [days : 0..MaxDays, seconds : 0..MaxSeconds]

\* timedelta.total_seconds(): the time the duration stands for.
TotalSeconds(d) == d.days * SecondsPerDay + d.seconds

\* timeout_in_seconds = duration.seconds: the seconds field of the timedelta.
TimeoutInSeconds(d) == d.seconds

\* What a GET /ping may end as: a status code, or a RequestException.
PingAnswers == {"200", "503", "RequestException"}

WaitInit ==
    /\ wait_pc = "idle"
    /\ duration = [days |-> 0, seconds |-> 0]
    /\ elapsed = 0
    /\ pings = <<>>
    /\ wait_result = "none"

\* The call: start_time = time.time()
WaitCall(d) ==
    /\ wait_pc = "idle"
    /\ duration' = d
    /\ wait_pc' = "while"
    /\ UNCHANGED <<elapsed, pings, wait_result>>
    /\ UNCHANGED notWait

\* while time.time() - start_time < timeout_in_seconds: ... return False
WaitLoopTest ==
    /\ wait_pc = "while"
    /\ IF elapsed < TimeoutInSeconds(duration)
       THEN wait_pc' = "get" /\ UNCHANGED wait_result
       ELSE wait_pc' = "done" /\ wait_result' = "False"
    /\ UNCHANGED <<duration, elapsed, pings>>
    /\ UNCHANGED notWait

\* requests.get(ping, timeout=2): answered after `latency` seconds.
WaitPing(answer, latency) ==
    /\ wait_pc = "get"
    /\ elapsed' = elapsed + latency
    /\ pings' = Append(pings, [answer |-> answer, at |-> elapsed + latency])
    /\ IF answer = "200"
       THEN wait_pc' = "done" /\ wait_result' = "True"
       ELSE wait_pc' = "sleep" /\ UNCHANGED wait_result
    /\ UNCHANGED duration
    /\ UNCHANGED notWait

\* time.sleep(2)
WaitSleep ==
    /\ wait_pc = "sleep"
    /\ elapsed' = elapsed + PollInterval
    /\ wait_pc' = "while"
    /\ UNCHANGED <<duration, pings, wait_result>>
    /\ UNCHANGED notWait

WaitNext ==
    \/ \E d \in Durations : WaitCall(d)
    \/ WaitLoopTest
    \/ \E answer \in PingAnswers, latency \in 0..RequestTimeout :
          WaitPing(answer, latency)
    \/ WaitSleep

-----------------------------------------------------------------------------
(* langgraph_streaming: the math agent runtime entrypoint and its graph *)

MaxSteps == 5

\* langgraph's END node
END == "__end__"

\* A JSON value of a payload field: its type and, for a bool its truth, for
\* a number its value, for a string its length.  "absent": no such key.
JsonValues ==
    {v \in [type : {"absent", "null", "bool", "number", "string"}, n : 0..1] :
        v.type \in {"absent", "null"} => v.n = 0}

StreamModes == {"absent", "updates", "values"}

Payloads ==
    [stream : JsonValues, streaming : JsonValues, stream_mode : StreamModes]

\* payload.get(key): None for a missing key
Get(v) == IF v.type = "absent" THEN [type |-> "null", n |-> 0] ELSE v

\* bool(v)
PyBool(v) == v.type \in {"bool", "number", "string"} /\ v.n # 0

\* a or b
Or(a, b) == IF PyBool(a) THEN a ELSE b

WantStream_streamOnly(p) == PyBool(Get(p.stream))

\* want_stream = bool(payload.get("stream") or payload.get("streaming"))
WantStream(p) == PyBool(Or(Get(p.stream), Get(p.streaming)))

\* stream_mode = payload.get("stream_mode", "updates")
StreamMode(p) == IF p.stream_mode = "absent" THEN "updates" ELSE p.stream_mode

\* The content of a message: a string, or a list of content blocks.
Contents == [kind : {"str", "list"}, text : {"", "45"}]

\* str(content)
StrOf(c) == IF c.kind = "list" THEN "[" \o c.text \o "]" ELSE c.text

\* content or ""
OrEmpty(c) == IF c.text = "" THEN [kind |-> "str", text |-> ""] ELSE c

\* What the model answers the worker: tool calls and content.
Responses == [tool_calls : 0..1, content : Contents]

HumanMessage ==
    [type |-> "HumanMessage", tool_calls |-> 0,
     content |-> [kind |-> "str", text |-> "What is (10 + 5) * 3?"]]

AIMessage(response) ==
    [type |-> "AIMessage", tool_calls |-> response.tool_calls,
     content |-> response.content]

ToolMessage ==
    [type |-> "ToolMessage", tool_calls |-> 0,
     content |-> [kind |-> "str", text |-> "15"]]

WorkerOutput_always(response) == StrOf(OrEmpty(response.content))

\* worker: worker_output is kept only for a response without tool calls
WorkerOutput(response) ==
    IF response.tool_calls # 0 THEN "" ELSE StrOf(OrEmpty(response.content))

should_continue_evaluateEmpty(msgs, wo, er) ==
    IF msgs[Len(msgs)].tool_calls # 0 THEN "tools"
    ELSE IF er = "" THEN "evaluator"
    ELSE END

should_continue(msgs, wo, er) ==
    IF msgs[Len(msgs)].tool_calls # 0 THEN "tools"
    ELSE IF wo # "" /\ er = "" THEN "evaluator"
    ELSE END

\* The rule route_after_tools documents.
route_after_tools_documented(msgs, wo, er) ==
    IF wo # "" /\ er = "" THEN "evaluator" ELSE "worker"

\* The rule route_after_tools applies.
route_after_tools(msgs, wo, er) == "worker"

\* builder.add_edge("evaluator", END)
AfterEvaluator_loop == "worker"

AfterEvaluator == END

\* The events of the stream.  An update event carries its node's name, a
\* values event the name "__values__"; a stream_error event has no node.
UpdateEvent(node) == [type |-> "update", node |-> node]
ValuesEvent == [type |-> "values", node |-> "__values__"]
StreamError == [type |-> "stream_error", node |-> ""]

Emit_skipTools(evs, p, node) ==
    IF ~WantStream(p) \/ node = "tools" THEN evs
    ELSE Append(evs, UpdateEvent(node))

\* What the stream carries once `node` has executed.
Emit(evs, p, node) ==
    IF ~WantStream(p) THEN evs
    ELSE IF StreamMode(p) = "updates" THEN Append(evs, UpdateEvent(node))
    ELSE Append(evs, ValuesEvent)

NoResponse == [kind |-> "none", result |-> ""]
StreamResponse == [kind |-> "stream", result |-> ""]
ErrorResponse == [kind |-> "error", result |-> ""]

\* final_answer = result.get("final_answer") or result.get("worker_output") or ""
FinalAnswer(msgs, wo) ==
    IF msgs[Len(msgs)].content.text # "" THEN StrOf(msgs[Len(msgs)].content)
    ELSE wo

\* What invoke has returned once the graph is at `next`.
Returned(resp, p, next, msgs, wo) ==
    IF next = END /\ ~WantStream(p)
    THEN [kind |-> "json", result |-> FinalAnswer(msgs, wo)]
    ELSE resp

MathInit ==
    /\ math_pc = "idle"
    /\ payload = [stream |-> [type |-> "absent", n |-> 0],
                  streaming |-> [type |-> "absent", n |-> 0],
                  stream_mode |-> "absent"]
    /\ messages = <<>>
    /\ worker_output = ""
    /\ evaluation_result = ""
    /\ executed = <<>>
    /\ events = <<>>
    /\ invoke_result = NoResponse

\* invoke(payload): the stream is returned at once, the graph starts at
\* the worker from the initial state.
Invoke(p) ==
    /\ math_pc = "idle"
    /\ payload' = p
    /\ messages' = <<HumanMessage>>
    /\ worker_output' = ""
    /\ evaluation_result' = ""
    /\ math_pc' = "worker"
    /\ invoke_result' = IF WantStream(p) THEN StreamResponse ELSE NoResponse
    /\ events' = IF WantStream(p) /\ StreamMode(p) # "updates"
                 THEN <<ValuesEvent>> ELSE <<>>
    /\ UNCHANGED executed
    /\ UNCHANGED notMath

\* The worker node, then its conditional edge.
WorkerStep(r) ==
    /\ math_pc = "worker"
    /\ Len(executed) < MaxSteps
    /\ messages' = Append(messages, AIMessage(r))
    /\ worker_output' = WorkerOutput(r)
    /\ math_pc' = should_continue(messages', worker_output', evaluation_result)
    /\ executed' = Append(executed, "worker")
    /\ events' = Emit(events, payload, "worker")
    /\ invoke_result' = Returned(invoke_result, payload, math_pc', messages', worker_output')
    /\ UNCHANGED <<payload, evaluation_result>>
    /\ UNCHANGED notMath

\* The tools node, then its conditional edge.
ToolsStep ==
    /\ math_pc = "tools"
    /\ Len(executed) < MaxSteps
    /\ messages' = Append(messages, ToolMessage)
    /\ math_pc' = route_after_tools(messages', worker_output, evaluation_result)
    /\ executed' = Append(executed, "tools")
    /\ events' = Emit(events, payload, "tools")
    /\ UNCHANGED <<payload, worker_output, evaluation_result, invoke_result>>
    /\ UNCHANGED notMath

\* The evaluator node, then its edge to END.
EvaluatorStep(c) ==
    /\ math_pc = "evaluator"
    /\ Len(executed) < MaxSteps
    /\ messages' = Append(messages, AIMessage([tool_calls |-> 0, content |-> c]))
    /\ evaluation_result' = StrOf(c)
    /\ math_pc' = AfterEvaluator
    /\ executed' = Append(executed, "evaluator")
    /\ events' = Emit(events, payload, "evaluator")
    /\ invoke_result' = Returned(invoke_result, payload, math_pc', messages', worker_output)
    /\ UNCHANGED <<payload, worker_output>>
    /\ UNCHANGED notMath

\* The node about to execute raises (a model or tool call fails): the
\* stream ends with a stream_error event, invoke returns an error object.
NodeRaises ==
    /\ math_pc \in {"worker", "tools", "evaluator"}
    /\ math_pc' = "raised"
    /\ events' = IF WantStream(payload) THEN Append(events, StreamError) ELSE events
    /\ invoke_result' = IF WantStream(payload) THEN invoke_result ELSE ErrorResponse
    /\ UNCHANGED <<payload, messages, worker_output, evaluation_result, executed>>
    /\ UNCHANGED notMath

MathNext ==
    \/ \E p \in Payloads : Invoke(p)
    \/ \E r \in Responses : WorkerStep(r)
    \/ ToolsStep
    \/ \E c \in Contents : EvaluatorStep(c)
    \/ NodeRaises

-----------------------------------------------------------------------------
(* Runtime entrypoints with a checkpointer: scoping_agent_core.langgraph_bedrock
   (InMemorySaver) and AgentcoreMemoryDR agent_runtime.invoke
   (MultiRegionAgentCoreMemorySaver).  The checkpointer is the library's: it
   keeps one checkpoint per configuration it is given, the thread_id for
   InMemorySaver, the thread_id (session) and actor_id for the AgentCore
   memory savers. *)

MaxInvocations == 3

Entrypoints == {"langgraph_bedrock", "invoke"}

\* The payload's thread_id and actor_id; "absent": no such key.
ThreadIds == {"absent", "default", "t1"}
ActorIds == {"absent", "a2"}
AgentPayloads == [thread_id : ThreadIds, actor_id : ActorIds]

\* thread_id = payload.get("thread_id", "default")
ThreadIdOf_notDefault(p) == IF p.thread_id = "absent" THEN "t1" ELSE p.thread_id

ThreadIdOf(p) == IF p.thread_id = "absent" THEN "default" ELSE p.thread_id

\* actor_id = payload.get("actor_id", "agent-1")
ActorIdOf(p) == IF p.actor_id = "absent" THEN "agent-1" ELSE p.actor_id

ConfigOf_shared(entry, p) == [thread_id |-> "default", actor_id |-> "none"]

\* config = {"configurable": {"thread_id": thread_id[, "actor_id": actor_id]}}
ConfigOf(entry, p) ==
    IF entry = "invoke"
    THEN [thread_id |-> ThreadIdOf(p), actor_id |-> ActorIdOf(p)]
    ELSE [thread_id |-> ThreadIdOf(p), actor_id |-> "none"]

Configs ==
    [thread_id : {"default", "t1"}, actor_id : {"none", "agent-1", "a2"}]

\* How agent.invoke ends: with its answer; with an exception after the
\* checkpoint of its input was written; with an exception before any write.
InvokeOutcomes == {"completed", "failed", "failed_unwritten"}

\* The messages of the n-th invocation: its HumanMessage, and the answer.
HumanOf(n) == 2 * n - 1
AnswerOf(n) == 2 * n

\* The checkpoint agent.invoke leaves, from the one it started from.
CheckpointLeft(start, n, out) ==
    IF out = "completed" THEN start \o <<HumanOf(n), AnswerOf(n)>>
    ELSE IF out = "failed" THEN Append(start, HumanOf(n))
    ELSE start

AgentInit ==
    /\ checkpointer = [e \in Entrypoints |-> [c \in Configs |-> <<>>]]
    /\ invocations = <<>>

\* One invocation of an entrypoint: agent.invoke(input, config)
AgentInvoke(entry, p, out) ==
    /\ Len(invocations) < MaxInvocations
    /\ LET config == ConfigOf(entry, p)
           start == checkpointer[entry][config]
           n == Len(invocations) + 1
           left == CheckpointLeft(start, n, out)
       IN  /\ checkpointer' = [checkpointer EXCEPT ![entry][config] = left]
           /\ invocations' = Append(invocations,
                 [entry |-> entry, payload |-> p, started_from |-> start,
                  outcome |-> out, left |-> left])
    /\ UNCHANGED notAgent

AgentNext ==
    \E entry \in Entrypoints, p \in AgentPayloads, out \in InvokeOutcomes :
        AgentInvoke(entry, p, out)

-----------------------------------------------------------------------------
(* enable_memory_replication.py *)

REGION_US == "us-west-2"
REGION_EU == "eu-west-1"
Regions == {REGION_US, REGION_EU}

\* The environment variables of a deployed runtime that the script reads or
\* writes, with the values one may hold before the script runs.
EnvValues ==
    [PRIMARY_MEMORY_ID |-> {"", "m1", "m2"},
     SECONDARY_REGION |-> Regions,
     SECONDARY_MEMORY_ID |-> {"m1", "m2"}]

EnvNames == DOMAIN EnvValues

\* runtime["environmentVariables"]: a dict with some of the names.
Envs ==
    UNION {{e \in [D -> UNION {EnvValues[k] : k \in EnvNames}] :
               \A k \in D : e[k] \in EnvValues[k]} : D \in SUBSET EnvNames}

\* `not env.get(name)`: the name is missing or its value is empty
Missing(env, name) == name \notin DOMAIN env \/ env[name] = ""

UpdatedEnv_replace(current_env, env_updates) == env_updates

\* updated_env = {**current_env, **env_updates}
UpdatedEnv(current_env, env_updates) ==
    [k \in DOMAIN current_env \cup DOMAIN env_updates |->
        IF k \in DOMAIN env_updates THEN env_updates[k] ELSE current_env[k]]

\* The updates main makes to the runtime of `region`.
EnvUpdates_own(region, other_region, own_primary, other_primary) ==
    [SECONDARY_REGION |-> other_region, SECONDARY_MEMORY_ID |-> own_primary]

EnvUpdates(region, other_region, own_primary, other_primary) ==
    [SECONDARY_REGION |-> other_region, SECONDARY_MEMORY_ID |-> other_primary]

\* A call of the control plane returns or raises.
ApiOutcomes == {"ok", "raise"}

ReplInit ==
    /\ repl_pc = "undeployed"
    /\ environmentVariables = [r \in Regions |-> <<>>]
    /\ us_primary_memory_id = ""
    /\ eu_primary_memory_id = ""

\* The two runtimes as deployed before the script runs.
Deploy(us_env, eu_env) ==
    /\ repl_pc = "undeployed"
    /\ environmentVariables' = [r \in Regions |->
                                   IF r = REGION_US THEN us_env ELSE eu_env]
    /\ repl_pc' = "main"
    /\ UNCHANGED <<us_primary_memory_id, eu_primary_memory_id>>
    /\ UNCHANGED notRepl

\* main, lines 62-87: find the runtimes, read their PRIMARY_MEMORY_IDs.
FetchConfigurations(out) ==
    /\ repl_pc = "main"
    /\ LET us_env == environmentVariables[REGION_US]
           eu_env == environmentVariables[REGION_EU]
       IN  IF \/ out = "raise"
              \/ Missing(us_env, "PRIMARY_MEMORY_ID")
              \/ Missing(eu_env, "PRIMARY_MEMORY_ID")
           THEN /\ repl_pc' = "raised"
                /\ UNCHANGED <<us_primary_memory_id, eu_primary_memory_id>>
           ELSE /\ repl_pc' = "update_us"
                /\ us_primary_memory_id' = us_env["PRIMARY_MEMORY_ID"]
                /\ eu_primary_memory_id' = eu_env["PRIMARY_MEMORY_ID"]
    /\ UNCHANGED environmentVariables
    /\ UNCHANGED notRepl

\* update_agent_runtime_env(region, ...): get, merge, update.
UpdateAgentRuntimeEnv(region, env_updates) ==
    environmentVariables' =
        [environmentVariables EXCEPT
            ![region] = UpdatedEnv(environmentVariables[region], env_updates)]

\* main, lines 89-94
UpdateUS(out) ==
    /\ repl_pc = "update_us"
    /\ IF out = "raise"
       THEN repl_pc' = "raised" /\ UNCHANGED environmentVariables
       ELSE /\ UpdateAgentRuntimeEnv(REGION_US,
                   EnvUpdates(REGION_US, REGION_EU,
                              us_primary_memory_id, eu_primary_memory_id))
            /\ repl_pc' = "update_eu"
    /\ UNCHANGED <<us_primary_memory_id, eu_primary_memory_id>>
    /\ UNCHANGED notRepl

\* main, lines 96-103
UpdateEU(out) ==
    /\ repl_pc = "update_eu"
    /\ IF out = "raise"
       THEN repl_pc' = "raised" /\ UNCHANGED environmentVariables
       ELSE /\ UpdateAgentRuntimeEnv(REGION_EU,
                   EnvUpdates(REGION_EU, REGION_US,
                              eu_primary_memory_id, us_primary_memory_id))
            /\ repl_pc' = "returned"
    /\ UNCHANGED <<us_primary_memory_id, eu_primary_memory_id>>
    /\ UNCHANGED notRepl

ReplNext ==
    \/ \E us_env \in Envs, eu_env \in Envs : Deploy(us_env, eu_env)
    \/ \E out \in ApiOutcomes : FetchConfigurations(out)
    \/ \E out \in ApiOutcomes : UpdateUS(out)
    \/ \E out \in ApiOutcomes : UpdateEU(out)

-----------------------------------------------------------------------------
(* MultiServerMCPClient/agentcore_remote_agent.py: agent_node *)

MaxToolCalls == 2

\* for _ in range(12)
ToolLoopRange == 12

\* The awaited calls that may raise: llm_with_tools.ainvoke, tool.ainvoke.
Awaited == {"llm", "tool"}

\* The names the model gives the tools it calls, taken in turn: the k-th
\* tool call of the c-th response names ToolNameOf(c, k).
ToolNames == <<"add_numbers", "no_such_tool">>

ToolNameOf(c, k) == ToolNames[((c + k) % Len(ToolNames)) + 1]

\* tools_by_name = {tool.name: tool for tool in tools}: the tools loaded
tools_by_name == {"add_numbers"}

\* The ids of tool calls, unique as the model provider makes them: the
\* k-th call of the c-th response.
ToolCallId(c, k) == c * 10 + k

\* response.tool_calls of the c-th response, with n tool calls.
ToolCallsOf(c, n) ==
    [k \in 1..n |-> [name |-> ToolNameOf(c, k), id |-> ToolCallId(c, k)]]

\* The c-th response of the model, with its number of tool calls.
AIResponse(c, n) ==
    [type |-> "AIMessage", tool_calls |-> n, response |-> c]

Result_anyTool(tools, tool_name) == "result of " \o tool_name

\* result: what the tool returned, or f"Tool {tool_name} not found"
Result(tools, tool_name) ==
    IF tool_name \in tools THEN "result of " \o tool_name
    ELSE "Tool " \o tool_name \o " not found"

\* ToolMessage(content=str(result), tool_call_id=tool_id)
ToolMessageOf(tools, tool_call) ==
    [type |-> "ToolMessage", tool_call_id |-> tool_call.id,
     content |-> Result(tools, tool_call.name)]

ToolMessagesOf_firstOnly(tools, tool_calls) ==
    IF tool_calls = <<>> THEN <<>> ELSE <<ToolMessageOf(tools, tool_calls[1])>>

\* The ToolMessages of one round, one per tool call of the response.
ToolMessagesOf(tools, tool_calls) ==
    [k \in 1..Len(tool_calls) |-> ToolMessageOf(tools, tool_calls[k])]

\* The tool calls of a response message.
PendingToolCalls(msg) == ToolCallsOf(msg.response, msg.tool_calls)

LoopContinues_unguarded(i, tool_calls) == tool_calls # 0

\* The loop body runs again: the range is not used up and the last
\* response has tool calls.
LoopContinues(i, tool_calls) == i < ToolLoopRange /\ tool_calls # 0

NodeInit ==
    /\ node_pc = "idle"
    /\ loop_i = 0
    /\ tool_rounds = 0
    /\ llm_calls = 0
    /\ new_messages = <<>>
    /\ node_result = <<>>

\* agent_node, lines 71-73: the first call of the model; the node returns
\* at once for a response without tool calls.
NodeStart(n) ==
    /\ node_pc = "idle"
    /\ llm_calls' = 1
    /\ new_messages' = <<AIResponse(1, n)>>
    /\ IF LoopContinues(loop_i, n)
       THEN node_pc' = "loop" /\ UNCHANGED node_result
       ELSE node_pc' = "returned" /\ node_result' = new_messages'
    /\ UNCHANGED <<loop_i, tool_rounds>>
    /\ UNCHANGED notNode

\* One pass of the loop body, lines 80-94: the tool calls of the response
\* are executed, the model is called again; then the loop test and, when
\* the loop is over, the return.
NodeRound(n) ==
    /\ node_pc = "loop"
    /\ tool_rounds' = tool_rounds + 1
    /\ llm_calls' = llm_calls + 1
    /\ new_messages' = Append(new_messages \o
           ToolMessagesOf(tools_by_name,
                          PendingToolCalls(new_messages[Len(new_messages)])),
           AIResponse(llm_calls', n))
    /\ loop_i' = loop_i + 1
    /\ IF LoopContinues(loop_i', n)
       THEN node_pc' = "loop" /\ UNCHANGED node_result
       ELSE node_pc' = "returned" /\ node_result' = new_messages'
    /\ UNCHANGED notNode

\* tool.ainvoke is awaited in this round: some tool call names a loaded tool.
InvokesATool(tools, tool_calls) ==
    \E k \in 1..Len(tool_calls) : tool_calls[k].name \in tools

\* An awaited call raises: the node ends with the exception, its locals
\* are gone.
AwaitRaises(at) ==
    /\ \/ node_pc = "idle" /\ at = "llm"
       \/ node_pc = "loop" /\ at = "llm"
       \/ /\ node_pc = "loop" /\ at = "tool"
          /\ InvokesATool(tools_by_name,
                          PendingToolCalls(new_messages[Len(new_messages)]))
    /\ node_pc' = "raised"
    /\ tool_rounds' = IF node_pc = "loop" THEN tool_rounds + 1 ELSE tool_rounds
    /\ llm_calls' = IF at = "llm" THEN llm_calls + 1 ELSE llm_calls
    /\ new_messages' = <<>>
    /\ UNCHANGED <<loop_i, node_result>>
    /\ UNCHANGED notNode

NodeNext ==
    \/ \E n \in 0..MaxToolCalls : NodeStart(n)
    \/ \E n \in 0..MaxToolCalls : NodeRound(n)
    \/ \E at \in Awaited : AwaitRaises(at)

-----------------------------------------------------------------------------
(* agentcore_remote_agent.py: _get_or_init and the entrypoint invoke *)

\* The invocations of the entrypoint that one process serves concurrently.
MaxTasks == 3
Tasks == 1..MaxTasks

REGION == "us-west-2"

\* None where the value, when there is one, is a string.
NoRegion == "None"

\* asyncio.Lock.acquire returns at once only when the lock is not held and no
\* invocation waits for it; otherwise the caller queues behind the others.
LockFree_always(lock, waiters) == TRUE

LockFree(lock, waiters) == lock = None /\ waiters = <<>>

\* if _cached.get("agent") is not None and _cached.get("region") is not None
IsCached(c) == c.agent # None /\ c.region # NoRegion

RemoteInit ==
    /\ task_pc = [t \in Tasks |-> "idle"]
    /\ init_lock = None
    /\ lock_waiters = <<>>
    /\ cached = [client |-> None, tools |-> None, agent |-> None,
                 region |-> NoRegion]
    /\ received = [t \in Tasks |-> <<>>]
    /\ agents_built = 0
    /\ initialised = 0

\* The statements of _get_or_init from the acquisition of the lock to its
\* first await or its exit: a cached agent is returned and the lock released
\* at once; otherwise the client is created, which raises without AWS
\* credentials (releasing the lock), and get_tools is awaited with the lock
\* held.
WithinLock(t, credentials) ==
    IF IsCached(cached)
    THEN /\ received' = [received EXCEPT ![t] = <<cached.agent, cached.region>>]
         /\ task_pc' = [task_pc EXCEPT ![t] = "ainvoke"]
         /\ init_lock' = None
    ELSE IF credentials = None
    THEN /\ task_pc' = [task_pc EXCEPT ![t] = "raised"]
         /\ init_lock' = None
         /\ UNCHANGED received
    ELSE /\ task_pc' = [task_pc EXCEPT ![t] = "get_tools"]
         /\ init_lock' = t
         /\ UNCHANGED received

\* invoke is called and reaches `async with _init_lock`: it takes the lock if
\* it is free and waits for it otherwise.
InvokeCalled(t, credentials) ==
    /\ task_pc[t] = "idle"
    /\ IF LockFree(init_lock, lock_waiters)
       THEN /\ WithinLock(t, credentials)
            /\ UNCHANGED lock_waiters
       ELSE /\ task_pc' = [task_pc EXCEPT ![t] = "waiting"]
            /\ lock_waiters' = Append(lock_waiters, t)
            /\ UNCHANGED <<init_lock, received>>
    /\ UNCHANGED <<cached, agents_built, initialised>>
    /\ UNCHANGED notRemote

\* The lock was released and its first waiter takes it.
Acquired(t, credentials) ==
    /\ task_pc[t] = "waiting"
    /\ init_lock = None
    /\ lock_waiters # <<>>
    /\ Head(lock_waiters) = t
    /\ lock_waiters' = Tail(lock_waiters)
    /\ WithinLock(t, credentials)
    /\ UNCHANGED <<cached, agents_built, initialised>>
    /\ UNCHANGED notRemote

\* client.get_tools() returns: the agent is built and stored with the client,
\* the tools and the region, and returned; the lock is released.
GetToolsReturns(t) ==
    /\ task_pc[t] = "get_tools"
    /\ agents_built' = agents_built + 1
    /\ cached' = [client |-> agents_built', tools |-> agents_built',
                  agent |-> agents_built', region |-> REGION]
    /\ initialised' = initialised + 1
    /\ received' = [received EXCEPT ![t] = <<agents_built', REGION>>]
    /\ task_pc' = [task_pc EXCEPT ![t] = "ainvoke"]
    /\ init_lock' = None
    /\ UNCHANGED lock_waiters
    /\ UNCHANGED notRemote

\* client.get_tools() raises: the lock is released, _cached is as it was.
GetToolsRaises(t) ==
    /\ task_pc[t] = "get_tools"
    /\ task_pc' = [task_pc EXCEPT ![t] = "raised"]
    /\ init_lock' = None
    /\ UNCHANGED <<lock_waiters, cached, received, agents_built, initialised>>
    /\ UNCHANGED notRemote

\* agent.ainvoke returns and invoke returns its result.
AinvokeReturns(t) ==
    /\ task_pc[t] = "ainvoke"
    /\ task_pc' = [task_pc EXCEPT ![t] = "returned"]
    /\ UNCHANGED <<init_lock, lock_waiters, cached, received, agents_built,
                   initialised>>
    /\ UNCHANGED notRemote

\* The AWS credentials boto3 finds: none, or some.
Credentials == {None, 1}

RemoteNext ==
    \/ \E t \in Tasks, credentials \in Credentials : InvokeCalled(t, credentials)
    \/ \E t \in Tasks, credentials \in Credentials : Acquired(t, credentials)
    \/ \E t \in Tasks : GetToolsReturns(t)
    \/ \E t \in Tasks : GetToolsRaises(t)
    \/ \E t \in Tasks : AinvokeReturns(t)

Init ==
    /\ SaverInit /\ OAuthInit /\ WaitInit /\ MathInit /\ AgentInit /\ ReplInit
    /\ NodeInit /\ RemoteInit

SaverNext ==
    \/ \E m \in WriteMethods, t \in Threads, out \in Outcomes : StartWrite(m, t, out)
    \/ \E c \in 1..MaxCalls, out \in Outcomes : SecondaryWrite(c, out)
    \/ \E m \in ReadMethods, t \in Threads, out \in Outcomes : Read(m, t, out)
    \/ \E current \in {None, 1}, out \in Outcomes : GetNextVersion(current, out)

SaverSpec == Init /\ [][SaverNext]_vars

OAuthSpec == Init /\ [][OAuthNext]_vars

WaitSpec == Init /\ [][WaitNext]_vars

MathSpec == Init /\ [][MathNext]_vars

AgentSpec == Init /\ [][AgentNext]_vars

ReplSpec == Init /\ [][ReplNext]_vars

NodeSpec == Init /\ [][NodeNext]_vars

RemoteSpec == Init /\ [][RemoteNext]_vars

-----------------------------------------------------------------------------
(* Properties of MultiRegionAgentCoreMemorySaver, checked under SaverSpec *)

Last(seq) == seq[Len(seq)]

Events(store, t) == {store[t][i] : i \in 1..Len(store[t])}

IsWrite(c) == calls[c].op \in WriteOps

\* The event a put or put_writes call c adds to a store.
EventOf(c) ==
    [id |-> c, kind |-> IF calls[c].op = "put" THEN "checkpoint" ELSE "writes"]

\* C1: in every write call the secondary write is issued only after the
\* primary write returned successfully; a primary write that raised is
\* followed by no secondary write; and the call raises whenever one of its
\* two writes raised.
C1_SecondaryOnlyAfterPrimary ==
    \A c \in 1..Len(calls) : IsWrite(c) =>
        /\ (calls[c].sec # "none" \/ "secondary" \in calls[c].savers)
              => calls[c].pri = "ok"
        /\ calls[c].pri = "raise"
              => calls[c].sec = "none" /\ calls[c].savers = {"primary"}
        /\ (calls[c].pri = "raise" \/ calls[c].sec = "raise")
              => calls[c].pc = "raised"

\* One call raised at its primary write and issued nothing to the secondary,
\* another raised at its secondary write.
C1_Witness ==
    \E c, d \in 1..Len(calls) :
        /\ IsWrite(c) /\ IsWrite(d)
        /\ calls[c].pri = "raise" /\ calls[c].sec = "none"
        /\ calls[c].pc = "raised"
        /\ calls[d].pri = "ok" /\ calls[d].sec = "raise"
        /\ calls[d].pc = "raised"

\* C2: a write call returns normally only when both writes succeeded: at the
\* step in which it returns, both writes of the call have returned "ok" and
\* the secondary store shows the write (the added event, or the emptied
\* thread of a delete_thread).
C2_ReturnsOnlyWhenBothSucceeded ==
    [][\A c \in 1..Len(calls') :
          (/\ calls'[c].op \in WriteOps
           /\ calls'[c].pc = "returned"
           /\ ~(c <= Len(calls) /\ calls[c].pc = "returned"))
          => /\ calls'[c].pri = "ok"
             /\ calls'[c].sec = "ok"
             /\ calls'[c].savers = {"primary", "secondary"}
             /\ IF calls'[c].op = "delete_thread"
                THEN secondary'[calls'[c].thread] = <<>>
                ELSE \E i \in 1..Len(secondary'[calls'[c].thread]) :
                        secondary'[calls'[c].thread][i].id = c]_vars

\* A put returned and its event is in both stores.
C2_Witness ==
    \E c \in 1..Len(calls) :
        /\ calls[c].op = "put"
        /\ calls[c].pc = "returned"
        /\ EventOf(c) \in Events(primary, calls[c].thread)
        /\ EventOf(c) \in Events(secondary, calls[c].thread)

\* C3: no compensation: the step in which a call's secondary write raises
\* leaves both stores as they were (the primary keeps what the primary write
\* did, the secondary has nothing of the call), ends the call with the
\* exception, and a call that has raised issues nothing further.
C3_NoCompensation ==
    [][\A c \in 1..Len(calls) : IsWrite(c) =>
          /\ (calls[c].pc = "secondary" /\ calls'[c].pc = "raised")
                => /\ primary' = primary
                   /\ secondary' = secondary
                   /\ calls'[c].pri = "ok"
                   /\ calls'[c].sec = "raise"
                   /\ \A i \in 1..Len(secondary'[calls[c].thread]) :
                         secondary'[calls[c].thread][i].id # c
          /\ calls[c].pc = "raised" => calls'[c] = calls[c]]_vars

\* A put raised at its secondary write, nothing is in progress, and the two
\* stores differ for its thread: the primary has the event, the secondary not.
C3_Witness ==
    \E c \in 1..Len(calls) :
        /\ calls[c].op = "put"
        /\ calls[c].pri = "ok" /\ calls[c].sec = "raise"
        /\ calls[c].pc = "raised"
        /\ \A d \in 1..Len(calls) : ~InProgress(d)
        /\ EventOf(c) \in Events(primary, calls[c].thread)
        /\ EventOf(c) \notin Events(secondary, calls[c].thread)

\* C4: a read call asks the primary saver only, answers what the primary
\* saver answers for the same arguments, and changes neither store.
C4_ReadsUsePrimaryOnly ==
    [][(/\ Len(calls') = Len(calls) + 1
        /\ Last(calls').op \in ReadOps)
       => /\ primary' = primary
          /\ secondary' = secondary
          /\ Last(calls').savers = {"primary"}
          /\ Last(calls').sec = "none"
          /\ Last(calls').pc = "returned"
                => Last(calls').value =
                     Answer(primary, Last(calls').op, Last(calls').thread,
                            Last(calls').current)]_vars

\* The last call is a read that returned the primary's answer while the
\* secondary saver would have answered otherwise.
C4_Witness ==
    /\ calls # <<>>
    /\ Last(calls).op \in ReadOps \ {"get_next_version"}
    /\ Last(calls).pc = "returned"
    /\ Last(calls).value =
          Answer(primary, Last(calls).op, Last(calls).thread, None)
    /\ Last(calls).value #
          Answer(secondary, Last(calls).op, Last(calls).thread, None)

AllWritesReturned ==
    \A c \in 1..Len(calls) : IsWrite(c) => calls[c].pc = "returned"

SameEvents(t) ==
    /\ Events(primary, t) = Events(secondary, t)
    /\ Len(primary[t]) = Len(secondary[t])

\* C5 as claimed: whenever no write is in progress and every write so far
\* returned successfully, the two stores hold the same events (and the same
\* number of events) for every thread.
C5_Original == AllWritesReturned => \A t \in Threads : SameEvents(t)

\* C5 as amended: whenever no write is in progress and every write so far
\* returned successfully, the two stores hold the same set of events (and the
\* same number of events) for every thread on which no delete_thread ran
\* while another write on that thread was in progress.
C5_SameEventsWithoutOverlappingDelete ==
    AllWritesReturned => \A t \in Threads \ delOverlap : SameEvents(t)

\* Two writes on one thread overlapped, both returned, no delete_thread
\* overlapped: the stores hold the same events, in different orders.
C5_Witness ==
    /\ AllWritesReturned
    /\ \E t \in Threads \ delOverlap :
          /\ Len(primary[t]) >= 2
          /\ SameEvents(t)
          /\ primary[t] # secondary[t]

-----------------------------------------------------------------------------
(* Properties of OAuth2CallbackServer, checked under OAuthSpec *)

\* The step handles one more request, of the given route.
Handles(route) ==
    /\ Len(requests') = Len(requests) + 1
    /\ Last(requests').route = route

IdentityCallsOf(i) ==
    {k \in 1..Len(identity_calls) : identity_calls[k].req = i}

\* C6 as claimed: a callback request without the session_id query parameter
\* is answered 400, and the identity service is not called for it.
C6_MissingSessionIdIs400 ==
    \A i \in 1..Len(requests) :
        (requests[i].route = "callback" /\ ~HasSessionId(requests[i].arg))
        => requests[i].status = 400 /\ IdentityCallsOf(i) = {}

\* No POST /userIdentifier/token has stored a token since the process started.
NoTokenStored ==
    \A i \in 1..Len(requests) :
        ~(requests[i].route = "store" /\ requests[i].status = 200)

\* C7: a callback with a non-empty session_id, handled when no token has
\* been stored since the process started, is answered 500, calls
\* complete_resource_token_auth not at all and leaves the identifier unset.
C7_NoTokenIs500 ==
    [][(/\ Handles("callback")
        /\ HasSessionId(Last(requests').arg)
        /\ Last(requests').arg.session_id # ""
        /\ NoTokenStored)
       => /\ Last(requests').status = 500
          /\ identity_calls' = identity_calls
          /\ user_token_identifier' = NotSet]_vars

\* The first request of the process was such a callback: 500, no identity call.
C7_Witness ==
    /\ requests # <<>>
    /\ requests[1].route = "callback"
    /\ HasSessionId(requests[1].arg)
    /\ requests[1].arg.session_id # ""
    /\ requests[1].status = 500
    /\ IdentityCallsOf(1) = {}
    /\ user_token_identifier = NotSet

\* C8: a callback is answered with the success page (200) only if its
\* handler called complete_resource_token_auth exactly once, with the
\* request's session_id and the stored identifier, and the call returned; a
\* callback whose identity call raised is not answered 200.
C8_SuccessOnlyAfterIdentityCall ==
    [][Handles("callback") =>
          /\ Last(requests').status = 200
                => /\ HasSessionId(Last(requests').arg)
                   /\ identity_calls' = Append(identity_calls,
                         [req |-> Len(requests'),
                          session_uri |-> Last(requests').arg.session_id,
                          user_identifier |-> user_token_identifier,
                          outcome |-> "ok"])
                   /\ user_token_identifier # NotSet
          /\ (/\ Len(identity_calls') > Len(identity_calls)
              /\ Last(identity_calls').outcome = "raise")
                => Last(requests').status # 200]_vars

\* One callback was answered 200 after its one identity call returned, and
\* another was answered 500 after its identity call raised.
C8_Witness ==
    \E i, j \in 1..Len(requests) :
        /\ requests[i].route = "callback" /\ requests[i].status = 200
        /\ Cardinality(IdentityCallsOf(i)) = 1
        /\ \A k \in IdentityCallsOf(i) :
              /\ identity_calls[k].session_uri = requests[i].arg.session_id
              /\ identity_calls[k].outcome = "ok"
        /\ requests[j].route = "callback" /\ requests[j].status = 500
        /\ \E k \in IdentityCallsOf(j) : identity_calls[k].outcome = "raise"

\* The body of the most recent POST /userIdentifier/token the handler stored
\* since the process started, or NotSet.
LastStored ==
    LET stored == {i \in 1..Len(requests) :
                      requests[i].route = "store" /\ requests[i].status = 200}
    IN IF stored = {} THEN NotSet
       ELSE requests[CHOOSE i \in stored : \A j \in stored : j <= i].arg

\* C9: the stored identifier is the body of the most recently handled POST
\* /userIdentifier/token since the process started, or unset if there was
\* none; pings, callbacks and rejected requests do not change it, and after
\* a restart it is unset.
C9_IdentifierIsLastStored == user_token_identifier = LastStored

\* Two different tokens were stored, then a callback succeeded and a ping was
\* answered: the identifier is still the second token.
C9_Witness ==
    /\ Len(requests) = 4
    /\ requests[1].route = "store" /\ requests[1].status = 200
    /\ requests[2].route = "store" /\ requests[2].status = 200
    /\ requests[1].arg # requests[2].arg
    /\ requests[3].route = "callback" /\ requests[3].status = 200
    /\ requests[4].route = "ping"
    /\ user_token_identifier = requests[2].arg

\* C10: every GET /ping is answered 200 with {"status": "success"}, and
\* changes neither the stored identifier nor the identity calls nor the
\* answers given before.
C10_PingAlwaysSucceeds ==
    [][Handles("ping") =>
          /\ Last(requests').status = 200
          /\ Last(requests').body = "{\"status\": \"success\"}"
          /\ user_token_identifier' = user_token_identifier
          /\ identity_calls' = identity_calls
          /\ SubSeq(requests', 1, Len(requests)) = requests]_vars

\* A ping before any token, then a token, a callback that failed at the
\* identity service, and a ping again: both pings answered 200.
C10_Witness ==
    /\ Len(requests) = 4
    /\ requests[1].route = "ping" /\ requests[1].status = 200
    /\ requests[2].route = "store" /\ requests[2].status = 200
    /\ requests[3].route = "callback" /\ requests[3].status = 500
    /\ IdentityCallsOf(3) # {}
    /\ requests[4].route = "ping" /\ requests[4].status = 200
    /\ requests[4].body = "{\"status\": \"success\"}"

\* The users of the multi-user scenario, and the user each session belongs
\* to: the user whose OAuth flow created it.
Users == {"u1", "u2"}

SessionUser(sid) == IF sid = "s1" THEN "u1" ELSE "u2"

\* C11 as claimed: when users store their tokens and have their callbacks
\* handled, in any order, a session whose user stored a token before its
\* callback is completed (complete_resource_token_auth) with that user's
\* identifier, never with another user's.
C11_SessionCompletedWithItsUser ==
    \A k \in 1..Len(identity_calls) :
        (/\ \A j \in 1..(identity_calls[k].req - 1) :
               requests[j].route = "store" /\ requests[j].status = 200
               => requests[j].arg.user_token \in Users
         /\ \E j \in 1..(identity_calls[k].req - 1) :
               /\ requests[j].route = "store"
               /\ requests[j].status = 200
               /\ requests[j].arg.user_token
                     = SessionUser(identity_calls[k].session_uri))
        => identity_calls[k].user_identifier.user_token
              = SessionUser(identity_calls[k].session_uri)

-----------------------------------------------------------------------------
(* Properties of wait_for_oauth2_server_to_be_ready, checked under WaitSpec *)

\* C12 as claimed: for a positive duration the function returns True only
\* for a ping answered 200 before the duration has elapsed, and returns
\* False only when the duration has elapsed without such an answer, every
\* other answer being retried.
C12_WaitsForTheDuration ==
    (wait_pc = "done" /\ TotalSeconds(duration) > 0) =>
        /\ wait_result = "True"
              => /\ pings # <<>>
                 /\ Last(pings).answer = "200"
                 /\ Last(pings).at < TotalSeconds(duration)
        /\ wait_result = "False"
              => /\ elapsed >= TotalSeconds(duration)
                 /\ \A i \in 1..Len(pings) : pings[i].answer # "200"

-----------------------------------------------------------------------------
(* Properties of the math agent runtime and its graph, checked under MathSpec *)

\* The events answer_math_question_streaming has yielded: the stream without
\* the stream_error event the entrypoint appends.
Yielded == SelectSeq(events, LAMBDA e : e.type # "stream_error")

\* The invocation asked for a stream in `updates` mode.
UpdatesStream ==
    math_pc # "idle" /\ WantStream(payload) /\ StreamMode(payload) = "updates"

HasExecuted(node) == \E i \in 1..Len(executed) : executed[i] = node

OneEventPerExecution ==
    /\ Len(Yielded) = Len(executed)
    /\ \A i \in 1..Len(Yielded) : Yielded[i] = UpdateEvent(executed[i])

\* C14 as claimed: in `updates` mode a stream that is over has carried one
\* event per node execution in order, a worker event first, a worker event
\* right after every tools event, and an evaluator event only as the last.
C14_Original ==
    (UpdatesStream /\ math_pc \in {END, "raised"}) =>
        /\ OneEventPerExecution
        /\ Yielded # <<>> => Yielded[1].node = "worker"
        /\ \A i \in 1..Len(Yielded) :
              Yielded[i].node = "tools"
                 => i < Len(Yielded) /\ Yielded[i + 1].node = "worker"
        /\ \A i \in 1..Len(Yielded) :
              Yielded[i].node = "evaluator" => i = Len(Yielded)

\* C14: in `updates` mode the stream carries one event per node execution in
\* order, a worker event first, and an evaluator event only as the last; the
\* event after a tools event is a worker event, and a stream that ends
\* without an error does not end with a tools event.
C14_OneEventPerNode ==
    UpdatesStream =>
        /\ OneEventPerExecution
        /\ Yielded # <<>> => Yielded[1].node = "worker"
        /\ \A i \in 1..Len(Yielded) :
              (Yielded[i].node = "tools" /\ i < Len(Yielded))
                 => Yielded[i + 1].node = "worker"
        /\ (math_pc = END /\ Yielded # <<>>) => Last(Yielded).node # "tools"
        /\ \A i \in 1..Len(Yielded) :
              Yielded[i].node = "evaluator" => i = Len(Yielded)

\* A finished stream of worker, tools, worker, evaluator.
C14_Witness ==
    /\ UpdatesStream
    /\ math_pc = END
    /\ events = <<UpdateEvent("worker"), UpdateEvent("tools"),
                  UpdateEvent("worker"), UpdateEvent("evaluator")>>

\* C17: after a worker step the graph goes to tools if the last message has
\* tool calls, otherwise to the evaluator if worker_output is non-empty and
\* evaluation_result is empty, otherwise to END; a response with no tool
\* calls and empty content ends the run without an evaluation.
C17_ShouldContinueRouting ==
    [][executed' = Append(executed, "worker") =>
          LET last_message == Last(messages')
              unevaluated == worker_output' # "" /\ evaluation_result' = ""
          IN  /\ last_message.tool_calls # 0 => math_pc' = "tools"
              /\ (last_message.tool_calls = 0 /\ unevaluated)
                    => math_pc' = "evaluator"
              /\ (last_message.tool_calls = 0 /\ ~unevaluated)
                    => math_pc' = END
              /\ (last_message.tool_calls = 0 /\ last_message.content.text = "")
                    => math_pc' = END /\ ~HasExecuted("evaluator")
      ]_vars

\* After a tool round the worker answered nothing and the run ended
\* without an evaluation.
C17_Witness ==
    /\ math_pc = END
    /\ executed = <<"worker", "tools", "worker">>
    /\ Last(messages).tool_calls = 0
    /\ Last(messages).content.text = ""
    /\ evaluation_result = ""

\* C18: after the tools node the route taken is the documented one (the
\* evaluator for unevaluated worker output, the worker otherwise), and as
\* worker_output is empty then, it is the worker.
C18_RouteAfterToolsAsDocumented ==
    [][executed' = Append(executed, "tools") =>
          /\ math_pc' = route_after_tools_documented(messages', worker_output',
                                                     evaluation_result')
          /\ worker_output' = ""
          /\ math_pc' = "worker"
      ]_vars

\* The tools ran for a response that carried content with its tool calls.
C18_Witness ==
    /\ Len(executed) >= 2
    /\ executed[2] = "tools"
    /\ math_pc = "worker"
    /\ messages[2].tool_calls # 0
    /\ messages[2].content.text # ""

\* C19: the evaluator executes at most once, only right after a worker step
\* whose response has no tool calls, and the run is over once it has
\* executed; evaluation_result is non-empty only if it has executed.
C19_EvaluatorOnceAndLast ==
    /\ Cardinality({i \in 1..Len(executed) : executed[i] = "evaluator"}) <= 1
    /\ \A i \in 1..Len(executed) :
          executed[i] = "evaluator" =>
             /\ i > 1
             /\ executed[i - 1] = "worker"
             /\ messages[i].type = "AIMessage"
             /\ messages[i].tool_calls = 0
             /\ i = Len(executed)
             /\ math_pc = END
    /\ evaluation_result # "" => HasExecuted("evaluator")

\* The evaluator has executed after a tool round and the final answer.
C19_Witness ==
    /\ executed = <<"worker", "tools", "worker", "evaluator">>
    /\ evaluation_result # ""
    /\ math_pc = END

-----------------------------------------------------------------------------
(* Properties of the runtime entrypoints, checked under AgentSpec *)

\* The thread an invocation is on: its payload's thread_id, "default" for a
\* payload without one.
ThreadClaimed(i) ==
    IF invocations[i].payload.thread_id = "absent" THEN "default"
    ELSE invocations[i].payload.thread_id

\* The actor of an invocation of agent_runtime.invoke ("agent-1" for a
\* payload without actor_id); langgraph_bedrock has none.
ActorClaimed(i) ==
    IF invocations[i].entry # "invoke" THEN "none"
    ELSE IF invocations[i].payload.actor_id = "absent" THEN "agent-1"
    ELSE invocations[i].payload.actor_id

SameThread(i, j) ==
    /\ invocations[i].entry = invocations[j].entry
    /\ ThreadClaimed(i) = ThreadClaimed(j)

SameConversation(i, j) == SameThread(i, j) /\ ActorClaimed(i) = ActorClaimed(j)

MaxOf(S) == CHOOSE m \in S : \A x \in S : x <= m

\* The invocation a message belongs to.
InvocationOf(m) == (m + 1) \div 2

\* No message of an invocation on another thread_id or entrypoint.
OwnMessagesOnly(msgs, j) ==
    \A k \in 1..Len(msgs) : SameThread(InvocationOf(msgs[k]), j)

\* C15 as claimed: an invocation on thread T starts from the checkpoint the
\* previous completed invocation on T left, sees no message of another
\* thread_id, and a payload without thread_id is on thread "default".
C15_Original ==
    \A j \in 1..Len(invocations) :
        LET prev == {i \in 1..(j - 1) :
                        SameThread(i, j) /\ invocations[i].outcome = "completed"}
        IN  /\ prev # {}
                  => invocations[j].started_from = invocations[MaxOf(prev)].left
            /\ OwnMessagesOnly(invocations[j].started_from, j)
            /\ OwnMessagesOnly(invocations[j].left, j)

\* C15: an invocation starts from the checkpoint left by the previous
\* invocation of the same entrypoint with the same thread_id ("default" for
\* a payload without one) and, for agent_runtime.invoke, the same actor_id
\* ("agent-1" without one); it sees and leaves no message of another
\* thread_id; and every checkpoint is as the last invocation on it left it.
C15_KeyedByThreadAndActor ==
    /\ \A j \in 1..Len(invocations) :
          LET prev == {i \in 1..(j - 1) : SameConversation(i, j)}
          IN  /\ invocations[j].started_from
                    = IF prev = {} THEN <<>> ELSE invocations[MaxOf(prev)].left
              /\ OwnMessagesOnly(invocations[j].started_from, j)
              /\ OwnMessagesOnly(invocations[j].left, j)
    /\ \A e \in Entrypoints, c \in Configs :
          LET on == {i \in 1..Len(invocations) :
                        /\ invocations[i].entry = e
                        /\ ThreadClaimed(i) = c.thread_id
                        /\ ActorClaimed(i) = c.actor_id}
          IN  checkpointer[e][c]
                 = IF on = {} THEN <<>> ELSE invocations[MaxOf(on)].left

\* A follow-up on thread "default" sees the messages of an invocation
\* without thread_id, with an invocation on another thread in between.
C15_Witness ==
    /\ Len(invocations) = 3
    /\ \A i \in 1..3 : invocations[i].entry = "langgraph_bedrock"
    /\ invocations[1].payload.thread_id = "absent"
    /\ invocations[1].outcome = "completed"
    /\ invocations[2].payload.thread_id = "t1"
    /\ invocations[2].outcome = "completed"
    /\ invocations[3].payload.thread_id = "default"
    /\ invocations[3].started_from = <<HumanOf(1), AnswerOf(1)>>

-----------------------------------------------------------------------------
(* Properties of enable_memory_replication.main, checked under ReplSpec *)

\* The runtime of `region` replicates to the runtime of `other`.
ReplicatesTo(region, other) ==
    LET env == environmentVariables[region]
        other_env == environmentVariables[other]
    IN  /\ {"SECONDARY_REGION", "SECONDARY_MEMORY_ID"} \subseteq DOMAIN env
        /\ "PRIMARY_MEMORY_ID" \in DOMAIN other_env
        /\ env["SECONDARY_REGION"] = other
        /\ env["SECONDARY_MEMORY_ID"] = other_env["PRIMARY_MEMORY_ID"]

\* C16: once main has returned, the us-west-2 runtime has SECONDARY_REGION
\* eu-west-1 and SECONDARY_MEMORY_ID eu-west-1's PRIMARY_MEMORY_ID, and the
\* eu-west-1 runtime has those of us-west-2.
C16_EachRegionReplicatesToTheOther ==
    repl_pc = "returned" =>
        /\ ReplicatesTo("us-west-2", "eu-west-1")
        /\ ReplicatesTo("eu-west-1", "us-west-2")

\* main has returned for two runtimes with different memories.
C16_Witness ==
    /\ repl_pc = "returned"
    /\ environmentVariables["us-west-2"]["PRIMARY_MEMORY_ID"] = "m1"
    /\ environmentVariables["eu-west-1"]["PRIMARY_MEMORY_ID"] = "m2"

-----------------------------------------------------------------------------
(* Properties of agent_node, checked under NodeSpec *)

\* C20: one execution of agent_node runs at most 12 rounds of tool
\* execution and makes at most 13 calls of the model, whatever the model
\* answers; after the 12th pass it is over, and what it returns is the
\* messages it accumulated.
C20_ToolLoopIsBounded ==
    /\ tool_rounds <= 12
    /\ llm_calls <= 13
    /\ loop_i = 12 => node_pc \in {"returned", "raised"}
    /\ node_pc = "returned" =>
          /\ node_result = new_messages
          /\ Len(node_result) >= 1
          /\ llm_calls = tool_rounds + 1

\* The guard has ended the loop: 12 rounds, 13 calls, and the last response
\* still asks for tools.
C20_Witness ==
    /\ node_pc = "returned"
    /\ tool_rounds = 12
    /\ llm_calls = 13
    /\ Last(node_result).tool_calls # 0

\* A round answers the response that ends msgs: next is msgs followed by one
\* ToolMessage per tool call of that response, in tool-call order and with
\* the call's id, a call of a tool that is not loaded being answered by
\* "Tool <name> not found", and then by the next response of the model; no
\* message of msgs carries one of these ids already.
AnswersLast(msgs, next) ==
    LET tool_calls == PendingToolCalls(Last(msgs))
        n == Len(tool_calls)
        L == Len(msgs)
        ids == {tool_calls[k].id : k \in 1..n}
    IN  /\ n > 0
        /\ Len(next) = L + n + 1
        /\ SubSeq(next, 1, L) = msgs
        /\ \A q \in 1..L :
              msgs[q].type = "ToolMessage" => msgs[q].tool_call_id \notin ids
        /\ \A k \in 1..n :
              /\ next[L + k].type = "ToolMessage"
              /\ next[L + k].tool_call_id = tool_calls[k].id
              /\ tool_calls[k].name \notin tools_by_name
                    => next[L + k].content
                          = "Tool " \o tool_calls[k].name \o " not found"
        /\ next[L + n + 1].type = "AIMessage"
        /\ next[L + n + 1].response = Last(msgs).response + 1

\* C21: agent_node starts its messages with the first response; every later
\* step that does not raise appends, for each tool call of the last response,
\* exactly one ToolMessage with the call's id, in tool-call order and before
\* the next response, an unknown tool being answered by "Tool <name> not
\* found"; the messages returned end with a response, which has tool calls
\* only as the 13th response after 12 rounds.
C21_EveryToolCallAnswered ==
    [][ /\ (node_pc = "idle" /\ node_pc' \in {"loop", "returned"}) =>
              /\ Len(new_messages') = 1
              /\ new_messages'[1].type = "AIMessage"
              /\ new_messages'[1].response = 1
        /\ (node_pc = "loop" /\ node_pc' \in {"loop", "returned"}) =>
              AnswersLast(new_messages, new_messages')
        /\ (node_pc # "returned" /\ node_pc' = "returned") =>
              /\ node_result' = new_messages'
              /\ Last(node_result').type = "AIMessage"
              /\ Last(node_result').tool_calls # 0 =>
                    /\ Last(node_result').response = 13
                    /\ tool_rounds' = 12
        /\ node_pc = "returned" => UNCHANGED <<node_pc, node_result>>
      ]_vars

\* The node has returned after answering a call of a loaded tool and a call
\* of an unknown tool of one response, in that order.
C21_Witness ==
    /\ node_pc = "returned"
    /\ Len(node_result) = 4
    /\ node_result[1].tool_calls = 2
    /\ node_result[2].content = "result of add_numbers"
    /\ node_result[3].content = "Tool no_such_tool not found"
    /\ node_result[4].tool_calls = 0

-----------------------------------------------------------------------------
(* Properties of _get_or_init, checked under RemoteSpec *)

\* The invocations that are inside an initialisation: past the cache check
\* of _get_or_init, awaiting client.get_tools().
Initialising == {t \in Tasks : task_pc[t] = "get_tools"}

\* The invocations to which _get_or_init has returned.
Served == {t \in Tasks : task_pc[t] \in {"ainvoke", "returned"}}

====
